---------------------------- MODULE Spec2Model ----------------------------
(***************************************************************************)
(* A model of the transport core of rabbitpy (src/rabbitpy/io.py): the     *)
(* readiness pollers, the IOLoop event loop, and the IO thread with its    *)
(* connection lifecycle and channel dispatch.                              *)
(*                                                                         *)
(* Bytes are small naturals and a byte string is a sequence of them.  The  *)
(* frame codec (pamqp) is an external library: it is modelled by its       *)
(* interface as a length-prefixed framing, with a one-byte channel id and  *)
(* a one-byte payload size standing for AMQP's seven-byte header.          *)
(***************************************************************************)
EXTENDS Integers, Sequences, FiniteSets, TLC

VARIABLES
    \* ---- IO: channel registry and read path
    channels,      \* IO._channels: channel id -> entry token (consumer, queue)
    buffer,        \* IO._buffer: bytes read and not yet decoded
    inbound,       \* per entry token: the frames put on its inbound queue
    handled,       \* the frames passed to a channel-0 consumer's on_frame
    dispatched,    \* history: every dispatch, in order
    lock,          \* IO._lock: how many times the RLock is held
    raised,        \* the exception that escaped the running call, or "none"
    wire,          \* input: the byte stream the peer sends
    pos,           \* how many bytes of wire have been handed to on_read
    received,      \* history: the bytes handed to on_read so far
    \* ---- shared signal set, fault sink, lifecycle
    events,        \* the flags that are set
    exceptions,    \* the Fault Sink: the faults put, in order
    state,         \* IO._state
    \* ---- IOLoop (the attributes of its threading.local as the IO thread
    \*      sees them) and the queues it shares
    running,       \* IOLoop._data.running in the IO thread
    write_queue,   \* the outbound queue of (channel_id, frame) pairs
    write_buffer,  \* IOLoop._data.write_buffer: marshalled chunks
    poller,        \* the poller: backend, _write_in_last_poll, kernel interest
    wakeup,        \* the wakeup channel holds unread bytes
    loopPc,        \* where the IO thread is in IOLoop.run
    other_data,    \* IOLoop._data as a second thread sees it: attribute -> value
    stopRaised,    \* the exception IOLoop.stop raised in the second thread
    sent,          \* history: the bytes the data socket accepted
    enqueued,      \* history: every pair put on the outbound queue
    \* ---- IO.run / IO._connect / IO.stop
    ioPc,          \* where the IO thread is in IO.run
    stopPc,        \* where the stopping thread is in IO._close
    candidates,    \* the resolved addresses: TRUE where connect succeeds
    idx,           \* the candidate the for loop of _connect is at
    sock,          \* the local sock of _connect (0 is None)
    socket,        \* IO._socket (0 is None)
    closedSocks,   \* the sockets that were closed
    tried,         \* history: the candidates connect was attempted on
    \* ---- a poller driven directly
    pollLog,       \* history: the poll calls made and what each watched
    \* ---- one call of IOLoop._poll seen from outside
    ops,           \* history: what the present iteration did, in order
    \* ---- producer threads
    producer,      \* per producer: the pair it has put and not yet signalled
    \* ---- a Message (src/rmqid/message.py) and its channel
    method,        \* Message.method: None, or the delivery it came with
    written,       \* the frames passed to channel.write_frame, in order
    calls,         \* history: the methods called on the message
    msgRaised      \* the exception the last call raised, or "none"

rvars == <<channels, buffer, inbound, handled, dispatched, lock, raised,
           wire, pos, received>>

svars == <<events, exceptions, state>>

lvars == <<running, write_queue, write_buffer, poller, wakeup, loopPc,
           other_data, stopRaised, sent, enqueued>>

cvars == <<ioPc, stopPc, candidates, idx, sock, socket, closedSocks, tried>>

mvars == <<method, written, calls, msgRaised>>

\* What the specifications of the transport's parts leave alone.
xvars == <<ops, producer, mvars>>

vars == <<rvars, svars, lvars, cvars, pollLog, xvars>>

---------------------------------------------------------------------------
(* Bounds of the model. *)

MaxChannel == 1          \* channel ids are 0..MaxChannel
MaxEntries == 2          \* distinct (consumer, queue) pairs given to add_channel
MaxWireFrames == 2       \* frames in the peer's byte stream
MaxPuts == 2             \* pairs put on the outbound queue
MaxAddrs == 2            \* addresses a resolution yields
MaxPollCalls == 2        \* calls of poll on a poller driven directly
MaxProducers == 2        \* producer threads
MaxTag == 1              \* delivery tags are 0..MaxTag
MaxCalls == 3            \* methods called on one message
MaxBody == 5             \* length of a message body
MaxFrameSize == 3        \* channel.maximum_frame_size is 1..MaxFrameSize
MaxPublishes == 2        \* calls of publish on one message

ChannelIds == 0..MaxChannel
Producers == 1..MaxProducers
Entries == 1..MaxEntries

---------------------------------------------------------------------------
(* Sequence helpers. *)

Min(a, b) == IF a < b THEN a ELSE b

Drop(s, k) == SubSeq(s, k + 1, Len(s))

Take(s, k) == SubSeq(s, 1, k)

IsPrefix(p, s) == Len(p) <= Len(s) /\ Take(s, Len(p)) = p

RECURSIVE Flatten(_)
Flatten(ss) == IF ss = <<>> THEN <<>> ELSE Head(ss) \o Flatten(Tail(ss))

---------------------------------------------------------------------------
(* The frame codec. *)

FrameEnd == 206

HeaderSize == 2

\* A frame value is its payload: two frames of different lengths.
Payloads == {<<1>>, <<1, 2>>}

\* pamqp.frame.marshal(frame, channel_id)
marshal(frame_value, channel_id) ==
    <<channel_id, Len(frame_value)>> \o frame_value \o <<FrameEnd>>

\* pamqp.frame.unmarshal(value): ok is FALSE where the library raises
\* UnmarshalingException (not all data received, or a bad last byte).
unmarshal(value) ==
    IF Len(value) < HeaderSize
    THEN [ok |-> FALSE, byte_count |-> 0, channel_id |-> 0, frame |-> <<>>]
    ELSE LET size == value[2]
             byte_count == HeaderSize + size + 1
         IN IF size = 0 \/ byte_count > Len(value)
               \/ value[byte_count] # FrameEnd
            THEN [ok |-> FALSE, byte_count |-> 0, channel_id |-> 0,
                  frame |-> <<>>]
            ELSE [ok |-> TRUE, byte_count |-> byte_count,
                  channel_id |-> value[1],
                  frame |-> SubSeq(value, HeaderSize + 1, HeaderSize + size)]

---------------------------------------------------------------------------
(* IO: the read path. *)

\* Mutant of IO._get_frame_from_str: when no frame can be decoded the
\* remainder handed back is empty, not the value.
IO_get_frame_from_str_drops_value(value) ==
    IF value = <<>>
    THEN [rest |-> value, ok |-> FALSE, channel_id |-> 0, frame |-> <<>>]
    ELSE LET u == unmarshal(value)
         IN IF ~u.ok
            THEN [rest |-> <<>>, ok |-> FALSE, channel_id |-> 0,
                  frame |-> <<>>]
            ELSE [rest |-> Drop(value, u.byte_count), ok |-> TRUE,
                  channel_id |-> u.channel_id, frame |-> u.frame]

\* IO._get_frame_from_str(value): (remainder, channel id, frame); ok FALSE
\* stands for the (value, None, None) result.
IO_get_frame_from_str(value) ==
    IF value = <<>>
    THEN [rest |-> value, ok |-> FALSE, channel_id |-> 0, frame |-> <<>>]
    ELSE LET u == unmarshal(value)
         IN IF ~u.ok
            THEN [rest |-> value, ok |-> FALSE, channel_id |-> 0,
                  frame |-> <<>>]
            ELSE [rest |-> Drop(value, u.byte_count), ok |-> TRUE,
                  channel_id |-> u.channel_id, frame |-> u.frame]

\* IO._add_frame_to_queue(channel_id, frame_value) on state s with registry
\* chans: a KeyError for an id that is not registered.
IO_add_frame_to_queue(s, chans, channel_id, frame_value) ==
    IF channel_id \notin DOMAIN chans
    THEN [s EXCEPT !.raised = "KeyError in _add_frame_to_queue"]
    ELSE [s EXCEPT
            !.inbound[chans[channel_id]] = Append(@, frame_value),
            !.dispatched = Append(@, [kind |-> "put",
                                      channel_id |-> channel_id,
                                      frame |-> frame_value])]

\* Mutant of the channel-0 branch: the continue is missing, so the frame
\* goes on to _add_frame_to_queue as well.
IO_dispatch_channel0_no_continue(s, chans, frame_value) ==
    IF 0 \notin DOMAIN chans
    THEN [s EXCEPT !.lock = @ + 1, !.raised = "KeyError in on_read"]
    ELSE IO_add_frame_to_queue(
            [s EXCEPT
               !.handled = Append(@, [consumer |-> chans[0],
                                      frame |-> frame_value]),
               !.dispatched = Append(@, [kind |-> "on_frame",
                                         channel_id |-> 0,
                                         frame |-> frame_value])],
            chans, 0, frame_value)

\* The channel-0 branch of IO.on_read: acquire the lock, look the consumer
\* up, call its on_frame, release the lock.
IO_dispatch_channel0(s, chans, frame_value) ==
    IF 0 \notin DOMAIN chans
    THEN [s EXCEPT !.lock = @ + 1, !.raised = "KeyError in on_read"]
    ELSE [s EXCEPT
            !.handled = Append(@, [consumer |-> chans[0],
                                   frame |-> frame_value]),
            !.dispatched = Append(@, [kind |-> "on_frame",
                                      channel_id |-> 0,
                                      frame |-> frame_value])]

\* The while loop of IO.on_read, from a state whose buffer already holds
\* the appended data.
RECURSIVE IO_on_read_loop(_, _)
IO_on_read_loop(s, chans) ==
    IF s.buffer = <<>> THEN s
    ELSE LET r == IO_get_frame_from_str(s.buffer)      \* IO._read_frame
             s1 == [s EXCEPT !.buffer = r.rest]
         IN IF s1.buffer # <<>> /\ ~r.ok THEN s1
            ELSE LET s2 == IF r.channel_id = 0
                           THEN IO_dispatch_channel0(s1, chans, r.frame)
                           ELSE IO_add_frame_to_queue(s1, chans,
                                                      r.channel_id, r.frame)
                 IN IF s2.raised # "none" THEN s2
                    ELSE IO_on_read_loop(s2, chans)

\* Mutant of IO.on_read: the new data replaces the buffer (= for +=).
IO_on_read_replaces_buffer(s, chans, data) ==
    IO_on_read_loop([s EXCEPT !.buffer = data], chans)

\* IO.on_read(data)
IO_on_read(s, chans, data) ==
    IO_on_read_loop([s EXCEPT !.buffer = @ \o data], chans)

\* One entry of the log of an iteration: the call made (op), what it was
\* given or gave back (kind, errno, n, data).
Op(op, kind, errno, n, data) ==
    [op |-> op, kind |-> kind, errno |-> errno, n |-> n, data |-> data]

\* IO.add_channel(channel, write_queue)
IO_add_channel(chans, channel_id, entry) ==
    [c \in (DOMAIN chans) \cup {channel_id} |->
        IF c = channel_id THEN entry ELSE chans[c]]

\* Mutant of IO.on_error: the signal is set before the fault is put.
IO_on_error_sets_signal_first(s, chans, is_open) ==
    IF 0 \notin DOMAIN chans
    THEN [s EXCEPT
            !.ops = Append(@, Op("error_callback", "no channel 0", 0, 0,
                                 <<>>)),
            !.raised = "KeyError in on_error"]
    ELSE LET fault == IF is_open THEN "ConnectionResetException"
                      ELSE "ConnectionException"
         IN [s EXCEPT
               !.exceptions = Append(@, fault),
               !.events = @ \cup {"EXCEPTION_RAISED"},
               !.ops = @ \o <<Op("error_callback",
                                 IF is_open THEN "open" ELSE "not open",
                                 0, 0, <<>>),
                              Op("set", "EXCEPTION_RAISED", 0, 0, <<>>),
                              Op("put", fault, 0, 0, <<>>)>>]

\* IO.on_error(exception): the fault is classified by the channel-0
\* consumer's open predicate (is_open); a KeyError when channel 0 is not
\* registered.
IO_on_error(s, chans, is_open) ==
    IF 0 \notin DOMAIN chans
    THEN [s EXCEPT
            !.ops = Append(@, Op("error_callback", "no channel 0", 0, 0,
                                 <<>>)),
            !.raised = "KeyError in on_error"]
    ELSE LET fault == IF is_open THEN "ConnectionResetException"
                      ELSE "ConnectionException"
         IN [s EXCEPT
               !.exceptions = Append(@, fault),
               !.events = @ \cup {"EXCEPTION_RAISED"},
               !.ops = @ \o <<Op("error_callback",
                                 IF is_open THEN "open" ELSE "not open",
                                 0, 0, <<>>),
                              Op("put", fault, 0, 0, <<>>),
                              Op("set", "EXCEPTION_RAISED", 0, 0, <<>>)>>]

---------------------------------------------------------------------------
(* The pollers.  A poller is [backend, write_in_last_poll, write_registered]:
   write_registered is what the kernel object holds between calls (the poll
   mask of the data socket, the kqueue write filter).  Each poll operator
   gives the poller after the call and whether the data socket was watched
   for write-readiness during the call. *)

Backends == {"SelectPoller", "KQueuePoller", "PollPoller"}

\* SelectPoller.__init__, KQueuePoller.__init__, PollPoller.__init__
NewPoller(backend) ==
    [backend |-> backend, write_in_last_poll |-> FALSE,
     write_registered |-> FALSE]

\* SelectPoller.poll: the descriptor lists are chosen anew on every call.
SelectPoller_poll(p, write_wanted) ==
    [poller |-> p, watch_write |-> write_wanted]

\* KQueuePoller._changelist, applied by kqueue.control in KQueuePoller.poll
KQueuePoller_changelist(p, write_wanted) ==
    IF write_wanted /\ ~p.write_in_last_poll
    THEN [p EXCEPT !.write_in_last_poll = TRUE, !.write_registered = TRUE]
    ELSE IF p.write_in_last_poll /\ ~write_wanted
    THEN [p EXCEPT !.write_in_last_poll = FALSE, !.write_registered = FALSE]
    ELSE p

KQueuePoller_poll(p, write_wanted) ==
    LET q == KQueuePoller_changelist(p, write_wanted)
    IN [poller |-> q, watch_write |-> q.write_registered]

\* PollPoller._update_poll
PollPoller_update_poll(p, write_wanted) ==
    IF p.write_in_last_poll
    THEN IF ~write_wanted
         THEN [p EXCEPT !.write_in_last_poll = FALSE,
                        !.write_registered = FALSE]
         ELSE p
    ELSE [p EXCEPT !.write_in_last_poll = TRUE, !.write_registered = TRUE]

PollPoller_poll(p, write_wanted) ==
    LET q == PollPoller_update_poll(p, write_wanted)
    IN [poller |-> q, watch_write |-> q.write_registered]

\* self._poller.poll(write_wanted) on the backend _create_poller chose
Poller_poll(p, write_wanted) ==
    CASE p.backend = "SelectPoller" -> SelectPoller_poll(p, write_wanted)
      [] p.backend = "KQueuePoller" -> KQueuePoller_poll(p, write_wanted)
      [] p.backend = "PollPoller" -> PollPoller_poll(p, write_wanted)

\* What a poll call can return: which of the data socket (fd) and the
\* wakeup channel are readable, whether fd is writable, whether a
\* descriptor is errored.  A descriptor is reported writable only if it is
\* watched for it; the wakeup channel is readable exactly when it holds
\* bytes; an interrupted call (select.error) gives three empty lists.
NoneReady == [r_fd |-> FALSE, r_trigger |-> FALSE, w |-> FALSE, x |-> FALSE]

PollResults(watch_write, pending) ==
    {NoneReady} \cup
    {res \in [r_fd : BOOLEAN, r_trigger : {pending}, w : BOOLEAN,
              x : BOOLEAN] : res.w => watch_write}

---------------------------------------------------------------------------
(* IOLoop.  Its operators act on a record of the fields the IO thread
   reads and writes during one call. *)

ERRNO_TEMP_UNAVAILABLE == 35

\* The errno values a failed send can carry: resource temporarily
\* unavailable (35 on BSD, 11 on Linux) and connection reset (104).
SendErrnos == {35, 11, 104}

NoSend == [kind |-> "none", n |-> 0, errno |-> 0]

\* IOLoop._read with the outcome of fd.recv(MAX_READ)
IOLoop_read(s, chans, rd, is_open) ==
    IF ~s.running THEN s
    ELSE LET t == [s EXCEPT
                     !.ops = Append(@, Op("recv", rd.kind, 0, 0, rd.data))]
         IN CASE rd.kind = "data" ->
                    IO_on_read([t EXCEPT !.pos = @ + Len(rd.data),
                                         !.received = @ \o rd.data],
                               chans, rd.data)
              [] rd.kind = "timeout" -> t
              [] rd.kind = "error" ->
                    IO_on_error([t EXCEPT !.running = FALSE], chans,
                                is_open)

\* Mutant of IOLoop._write: after a short send the whole chunk, not the
\* unsent rest, goes back to the front of the write buffer.
IOLoop_write_requeues_whole(s, chans, wr, is_open) ==
    IF ~s.running THEN s
    ELSE LET frame_data == Head(s.write_buffer)
         IN CASE wr.kind = "timeout" -> s
              [] wr.kind = "error" ->
                    IF wr.errno = ERRNO_TEMP_UNAVAILABLE
                    THEN s
                    ELSE IO_on_error([s EXCEPT !.write_buffer = Tail(@),
                                               !.running = FALSE],
                                     chans, is_open)
              [] wr.kind = "sent" ->
                    IF wr.n < Len(frame_data)
                    THEN [s EXCEPT !.sent = @ \o Take(frame_data, wr.n)]
                    ELSE [s EXCEPT !.sent = @ \o frame_data,
                                   !.write_buffer = Tail(@)]

\* IOLoop._write with the outcome of fd.send(frame_data)
IOLoop_write(s, chans, wr, is_open) ==
    IF ~s.running THEN s
    ELSE LET frame_data == Head(s.write_buffer)
             popped == [s EXCEPT
                          !.write_buffer = Tail(@),
                          !.ops = Append(@, Op("send", wr.kind, wr.errno,
                                               wr.n, frame_data))]
             putback == [popped EXCEPT
                            !.write_buffer = <<frame_data>> \o @]
         IN CASE wr.kind = "timeout" -> putback
              [] wr.kind = "error" ->
                    IF wr.errno = ERRNO_TEMP_UNAVAILABLE
                    THEN putback
                    ELSE IO_on_error([popped EXCEPT !.running = FALSE],
                                     chans, is_open)
              [] wr.kind = "sent" ->
                    LET accepted == [popped EXCEPT
                                       !.sent = @ \o Take(frame_data, wr.n)]
                    IN IF wr.n < Len(frame_data)
                       THEN [accepted EXCEPT
                               !.write_buffer =
                                   <<Drop(frame_data, wr.n)>> \o @]
                       ELSE accepted

\* The drain at the top of IOLoop._poll: every queued (channel_id, frame)
\* pair is marshalled and appended to the write buffer.
RECURSIVE IOLoop_drain(_, _)
IOLoop_drain(queue, wbuf) ==
    IF queue = <<>> THEN wbuf
    ELSE LET data == Head(queue)
         IN IOLoop_drain(Tail(queue),
                         Append(wbuf, marshal(data[2], data[1])))

\* Mutant of IOLoop._poll: the write comes before the read.
IOLoop_poll_handle_writes_first(s, chans, res, rd, wr, is_open) ==
    IF res.x
    THEN IO_on_error([s EXCEPT !.events = @ \cup {"SOCKET_CLOSE"}],
                     chans, is_open)
    ELSE LET a == IF res.r_trigger THEN [s EXCEPT !.wakeup = FALSE] ELSE s
             b == IF res.w /\ a.write_buffer # <<>>
                  THEN IOLoop_write(a, chans, wr, is_open)
                  ELSE a
         IN IF b.raised # "none" THEN b
            ELSE IF res.r_fd THEN IOLoop_read(b, chans, rd, is_open)
                 ELSE b

\* IOLoop._poll after the poller returned res
IOLoop_poll_handle(s, chans, res, rd, wr, is_open) ==
    IF res.x
    THEN IO_on_error([s EXCEPT !.events = @ \cup {"SOCKET_CLOSE"}],
                     chans, is_open)
    ELSE LET a == IF res.r_trigger THEN [s EXCEPT !.wakeup = FALSE] ELSE s
             b == IF res.r_fd THEN IOLoop_read(a, chans, rd, is_open) ELSE a
         IN IF b.raised # "none" THEN b
            ELSE IF res.w /\ b.write_buffer # <<>>
                 THEN IOLoop_write(b, chans, wr, is_open)
                 ELSE b

\* IOLoop.run after a call of _poll: an exception that is no
\* EnvironmentError escapes, a set SOCKET_CLOSE breaks, the while condition
\* decides otherwise.
IOLoop_run_next(s) ==
    IF s.raised # "none" THEN "crashed"
    ELSE IF "SOCKET_CLOSE" \in s.events THEN "exited"
    ELSE IF s.running THEN "drain"
    ELSE "exited"

---------------------------------------------------------------------------
(* Inputs. *)

\* The (channel_id, frame) pairs producers put.
PutPairs == {<<0, <<1>>>>, <<1, <<1, 2>>>>}

WireFrames == {marshal(p, c) : p \in Payloads, c \in ChannelIds}

RECURSIVE WireSeqs(_)
WireSeqs(n) ==
    IF n = 0 THEN {<<>>}
    ELSE LET shorter == WireSeqs(n - 1)
         IN shorter \cup {w \o f : w \in shorter, f \in WireFrames}

\* Byte streams made of well-formed frames.
Wires == WireSeqs(MaxWireFrames)

\* The registries the event loop is run with and the stream the peer
\* sends: no channel registered; channel 0 registered and a frame for it;
\* channel 0 registered and a frame for a channel that is not.
LoopInputs ==
    {[channels |-> <<>>, wire |-> <<>>],
     [channels |-> (0 :> 1), wire |-> marshal(<<1>>, 0)],
     [channels |-> (0 :> 1), wire |-> marshal(<<1, 2>>, 1)]}

\* Bytes that are no frame: the last byte is not the frame-end byte.
Malformed == <<0, 1, 1, 0>>

\* The same with one more stream: a frame for channel 0 after malformed
\* bytes.
IterInputs ==
    LoopInputs \cup
    {[channels |-> (0 :> 1), wire |-> Malformed \o marshal(<<1>>, 0)]}

NoRecv == [kind |-> "none", data |-> <<>>]

\* What fd.recv(MAX_READ) can do: return the bytes that have arrived (any
\* part of what is left of the stream, or none: the peer has closed), time
\* out, or fail.
RecvOutcomes(w, p) ==
    {[kind |-> "data", data |-> SubSeq(w, p + 1, p + k)] :
        k \in 0..(Len(w) - p)}
    \cup {[kind |-> "timeout", data |-> <<>>],
          [kind |-> "error", data |-> <<>>]}

SendOutcomes(wbuf) ==
    IF wbuf = <<>> THEN {NoSend}
    ELSE {[kind |-> "sent", n |-> k, errno |-> 0] :
             k \in 0..Len(Head(wbuf))}
         \cup {[kind |-> "timeout", n |-> 0, errno |-> 0]}
         \cup {[kind |-> "error", n |-> 0, errno |-> e] : e \in SendErrnos}

---------------------------------------------------------------------------
(* The state outside the part a specification drives. *)

IdleRead ==
    /\ channels = <<>>
    /\ buffer = <<>>
    /\ inbound = [e \in Entries |-> <<>>]
    /\ handled = <<>>
    /\ dispatched = <<>>
    /\ lock = 0
    /\ raised = "none"
    /\ wire = <<>>
    /\ pos = 0
    /\ received = <<>>

IdleShared ==
    /\ events = {}
    /\ exceptions = <<>>
    /\ state = "None"

IdleLoop ==
    /\ running = FALSE
    /\ write_queue = <<>>
    /\ write_buffer = <<>>
    /\ poller = NewPoller("SelectPoller")
    /\ wakeup = FALSE
    /\ loopPc = "none"
    /\ other_data = <<>>
    /\ stopRaised = "none"
    /\ sent = <<>>
    /\ enqueued = <<>>

IdleConn ==
    /\ ioPc = "none"
    /\ stopPc = "none"
    /\ candidates = <<>>
    /\ idx = 0
    /\ sock = 0
    /\ socket = 0
    /\ closedSocks = {}
    /\ tried = <<>>

IdlePoll == pollLog = <<>>

IdleTrace == ops = <<>>

IdleProducers == producer = [p \in Producers |-> 0]

\* Message.method is None: the class attribute, for a message that was
\* built and not received.
NoMethod == [received |-> FALSE, delivery_tag |-> 0]

IdleMessage ==
    /\ method = NoMethod
    /\ written = <<>>
    /\ calls = <<>>
    /\ msgRaised = "none"

IdleExtra == IdleTrace /\ IdleProducers /\ IdleMessage

---------------------------------------------------------------------------
(* SpecRead: add_channel and on_read called on a constructed IO object,
   the peer's byte stream handed over in chunks of any size. *)

CurrentReadState ==
    [buffer |-> buffer, inbound |-> inbound, handled |-> handled,
     dispatched |-> dispatched, lock |-> lock, raised |-> raised]

SetReadState(s) ==
    /\ buffer' = s.buffer
    /\ inbound' = s.inbound
    /\ handled' = s.handled
    /\ dispatched' = s.dispatched
    /\ lock' = s.lock
    /\ raised' = s.raised

InitRead ==
    /\ channels = <<>>
    /\ buffer = <<>>
    /\ inbound = [e \in Entries |-> <<>>]
    /\ handled = <<>>
    /\ dispatched = <<>>
    /\ lock = 0
    /\ raised = "none"
    /\ wire \in Wires
    /\ pos = 0
    /\ received = <<>>
    /\ IdleShared /\ IdleLoop /\ IdleConn /\ IdlePoll /\ IdleExtra

AddChannel ==
    /\ raised = "none"
    /\ \E c \in ChannelIds, e \in Entries :
          channels' = IO_add_channel(channels, c, e)
    /\ UNCHANGED <<buffer, inbound, handled, dispatched, lock, raised,
                   wire, pos, received>>
    /\ UNCHANGED <<svars, lvars, cvars, pollLog, xvars>>

OnRead ==
    /\ raised = "none"
    /\ \E k \in 0..(Len(wire) - pos) :
          LET data == SubSeq(wire, pos + 1, pos + k)
          IN /\ SetReadState(IO_on_read(CurrentReadState, channels, data))
             /\ pos' = pos + k
             /\ received' = received \o data
    /\ UNCHANGED <<channels, wire>>
    /\ UNCHANGED <<svars, lvars, cvars, pollLog, xvars>>

NextRead == AddChannel \/ OnRead

SpecRead == InitRead /\ [][NextRead]_vars

---------------------------------------------------------------------------
(* SpecLoop: IO.run from the point where _connect has succeeded and the
   IOLoop has been constructed (lines 343-352), with producers putting
   pairs on the outbound queue and signalling the wakeup channel, and a
   second thread calling IOLoop.stop. *)

CurrentLoopState ==
    [buffer |-> buffer, inbound |-> inbound, handled |-> handled,
     dispatched |-> dispatched, lock |-> lock, raised |-> raised,
     pos |-> pos, received |-> received,
     events |-> events, exceptions |-> exceptions,
     running |-> running, write_buffer |-> write_buffer,
     wakeup |-> wakeup, sent |-> sent, ops |-> ops]

SetLoopState(s) ==
    /\ SetReadState(s)
    /\ pos' = s.pos
    /\ received' = s.received
    /\ events' = s.events
    /\ exceptions' = s.exceptions
    /\ running' = s.running
    /\ write_buffer' = s.write_buffer
    /\ wakeup' = s.wakeup
    /\ sent' = s.sent

LoopInit(inputs) ==
    /\ \E input \in inputs :
          channels = input.channels /\ wire = input.wire
    /\ buffer = <<>>
    /\ inbound = [e \in Entries |-> <<>>]
    /\ handled = <<>>
    /\ dispatched = <<>>
    /\ lock = 0
    /\ raised = "none"
    /\ pos = 0
    /\ received = <<>>
    /\ events = {"SOCKET_OPENED"}
    /\ exceptions = <<>>
    /\ state = "OPEN"
    /\ running = FALSE
    /\ write_queue = <<>>
    /\ write_buffer = <<>>
    /\ poller \in {NewPoller(b) : b \in Backends}
    /\ wakeup = FALSE
    /\ loopPc = "start"
    /\ other_data = <<>>
    /\ stopRaised = "none"
    /\ sent = <<>>
    /\ enqueued = <<>>
    /\ IdleConn /\ IdlePoll /\ IdleExtra

InitLoop == LoopInit(LoopInputs)

LoopFrame ==
    <<channels, wire, state, other_data, stopRaised, cvars, pollLog,
      producer, mvars>>

\* A producer thread puts a pair on the outbound queue.
Put ==
    /\ Len(enqueued) < MaxPuts
    /\ \E pair \in PutPairs :
          /\ write_queue' = Append(write_queue, pair)
          /\ enqueued' = Append(enqueued, pair)
    /\ UNCHANGED <<rvars, svars, running, write_buffer, poller, wakeup,
                   loopPc, other_data, stopRaised, sent, cvars, pollLog, xvars>>

\* IO._trigger_write: a byte is sent on the wakeup channel; a socket.error
\* (the channel is full) is swallowed.
TriggerWrite ==
    /\ wakeup' = TRUE
    /\ UNCHANGED <<rvars, svars, running, write_queue, write_buffer, poller,
                   loopPc, other_data, stopRaised, sent, enqueued,
                   cvars, pollLog, xvars>>

\* IOLoop.run, line 187
LoopStart ==
    /\ loopPc = "start"
    /\ running' = TRUE
    /\ loopPc' = "drain"
    /\ UNCHANGED <<rvars, svars, write_queue, write_buffer, poller, wakeup,
                   other_data, stopRaised, sent, enqueued,
                   cvars, pollLog, xvars>>

\* IOLoop._poll, lines 212-218; logged: the iteration's log is kept.
DrainStep(logged) ==
    /\ loopPc = "drain"
    /\ write_buffer' = IOLoop_drain(write_queue, write_buffer)
    /\ write_queue' = <<>>
    /\ loopPc' = "poll"
    /\ ops' = IF logged THEN <<Op("drain", "", 0, Len(write_queue), <<>>)>>
              ELSE ops
    /\ UNCHANGED <<rvars, svars, running, poller, wakeup, other_data,
                   stopRaised, sent, enqueued, cvars, pollLog, producer,
                   mvars>>

LoopDrain == DrainStep(FALSE)

\* What the sockets do during a call of _poll.  blocking: the call returns
\* only with a descriptor ready (no timeout, no interruption); writable:
\* the data socket is reported writable whenever it is watched for it;
\* errors: a descriptor can be reported errored; silent: the peer sends
\* nothing, the data socket is never readable; eof: the peer has closed
\* after the last byte of the stream, the data socket is readable at every
\* call and recv returns zero bytes exactly when the stream is used up;
\* the kinds of outcome recv and send can have, and the least number of
\* bytes a send accepts.
AnyEnv ==
    [blocking |-> FALSE, writable |-> FALSE, errors |-> TRUE,
     silent |-> FALSE, eof |-> FALSE,
     recvKinds |-> {"data", "timeout", "error"},
     sendKinds |-> {"sent", "timeout", "error"}, minSent |-> 0]

PollResultsIn(env, watch_write, pending) ==
    {res \in PollResults(watch_write, pending) :
        /\ env.blocking => (res.r_fd \/ res.r_trigger \/ res.w \/ res.x)
        /\ env.writable => (res.w = watch_write)
        /\ env.silent => ~res.r_fd
        /\ env.eof => res.r_fd
        /\ res.x => env.errors}

RecvOutcomesIn(env, w, p) ==
    {rd \in RecvOutcomes(w, p) :
        /\ rd.kind \in env.recvKinds
        /\ env.eof => (rd.data = <<>> <=> p = Len(w))}

SendOutcomesIn(env, wbuf) ==
    {wr \in SendOutcomes(wbuf) :
        /\ wr.kind \in env.sendKinds \cup {"none"}
        /\ wr.kind = "sent" => wr.n >= env.minSent}

\* The three lists a poll call returned, as they go in the log: 1 where
\* the data socket is in rlist, the wakeup channel is in rlist, wlist is
\* not empty, xlist is not empty.
Lists(res) ==
    <<IF res.r_fd THEN 1 ELSE 0, IF res.r_trigger THEN 1 ELSE 0,
      IF res.w THEN 1 ELSE 0, IF res.x THEN 1 ELSE 0>>

\* IOLoop._poll, lines 221-239, and the loop control of IOLoop.run
PollStep(env, logged) ==
    /\ loopPc = "poll"
    /\ LET write_wanted == write_buffer # <<>>
           polled == Poller_poll(poller, write_wanted)
       IN /\ poller' = polled.poller
          /\ \E res \in PollResultsIn(env, polled.watch_write, wakeup) :
             \E rd \in IF res.r_fd /\ ~res.x /\ running
                        THEN RecvOutcomesIn(env, wire, pos) ELSE {NoRecv} :
             \E wr \in IF res.w /\ ~res.x /\ running
                        THEN SendOutcomesIn(env, write_buffer) ELSE {NoSend} :
             \E is_open \in IF res.x \/ rd.kind = "error"
                                      \/ wr.kind = "error"
                            THEN BOOLEAN ELSE {FALSE} :
                LET called == [CurrentLoopState EXCEPT
                                  !.ops = Append(@, Op("poll",
                                                       IF write_wanted
                                                       THEN "write wanted"
                                                       ELSE "read only",
                                                       0, 0, Lists(res)))]
                    s == IOLoop_poll_handle(called, channels, res, rd, wr,
                                            is_open)
                IN /\ SetLoopState(s)
                   /\ loopPc' = IOLoop_run_next(s)
                   /\ ops' = IF logged THEN s.ops ELSE ops
    /\ UNCHANGED <<write_queue, enqueued>>
    /\ UNCHANGED LoopFrame

LoopPoll == PollStep(AnyEnv, FALSE)

\* IO.run, lines 349-352
RunFinish ==
    /\ loopPc = "exited"
    /\ events' = IF exceptions # <<>> /\ "EXCEPTION_RAISED" \notin events
                 THEN events \cup {"EXCEPTION_RAISED"}
                 ELSE events
    /\ loopPc' = "returned"
    /\ UNCHANGED <<rvars, exceptions, state, running, write_queue,
                   write_buffer, poller, wakeup, other_data, stopRaised,
                   sent, enqueued, cvars, pollLog, xvars>>

\* IOLoop.stop called by a thread other than the IO thread: the store to
\* _data.running lands in that thread's own namespace of the
\* threading.local, and the read of _data.write_trigger finds no such
\* attribute there.
LoopStopOther ==
    /\ loopPc \in {"drain", "poll"}
    /\ stopRaised = "none"
    /\ other_data' = ("running" :> FALSE)
    /\ stopRaised' = IF "write_trigger" \in DOMAIN other_data'
                     THEN "none" ELSE "AttributeError"
    /\ UNCHANGED <<rvars, svars, running, write_queue, write_buffer, poller,
                   wakeup, loopPc, sent, enqueued, cvars, pollLog, xvars>>

NextLoop ==
    \/ Put
    \/ TriggerWrite
    \/ LoopStart
    \/ LoopDrain
    \/ LoopPoll
    \/ RunFinish
    \/ LoopStopOther

SpecLoop == InitLoop /\ [][NextLoop]_vars

---------------------------------------------------------------------------
(* SpecIter: the same run of the event loop with producers putting pairs,
   each iteration of _poll leaving the log of the calls it made (ops): the
   drain, the poll, the recv, the send, the error callback.  The loop sees
   a put at its next drain and not before, so the puts are taken between
   the iterations. *)

InitIter == LoopInit(IterInputs)

IterPut == loopPc \in {"start", "drain"} /\ Put

IterDrain == DrainStep(TRUE)

IterPoll == PollStep(AnyEnv, TRUE)

NextIter ==
    \/ IterPut
    \/ LoopStart
    \/ IterDrain
    \/ IterPoll
    \/ RunFinish

SpecIter == InitIter /\ [][NextIter]_vars

---------------------------------------------------------------------------
(* SpecConn: IO.run up to the construction of the IOLoop (lines 324-347),
   with IO.stop called once by another thread at any time.  Sockets are
   named by the index of the candidate address they were created for; 0 is
   None. *)

\* What socket.getaddrinfo can yield, as the outcomes of connecting to each
\* candidate in turn; a resolution failure gives the empty list.
AddrInfos == UNION {[1..n -> BOOLEAN] : n \in 0..MaxAddrs}

\* Mutant of the for loop body: sock is not reset after a failed connect.
IO_connect_attempt_keeps_sock(cands, i) ==
    IF cands[i]
    THEN [sock |-> i, break |-> TRUE]
    ELSE [sock |-> i, break |-> FALSE]

\* Mutant of the for loop body: no break after a successful connect.
IO_connect_attempt_no_break(cands, i) ==
    IF cands[i]
    THEN [sock |-> i, break |-> FALSE]
    ELSE [sock |-> 0, break |-> FALSE]

\* One pass of the for loop of IO._connect over candidate i: the socket is
\* created and connected; a socket.error resets sock to None and goes on.
IO_connect_attempt(cands, i) ==
    IF cands[i]
    THEN [sock |-> i, break |-> TRUE]
    ELSE [sock |-> 0, break |-> FALSE]

InitConn ==
    /\ IdleRead
    /\ IdleShared
    /\ IdleLoop
    /\ ioPc = "start"
    /\ stopPc = "idle"
    /\ candidates = <<>>
    /\ idx = 0
    /\ sock = 0
    /\ socket = 0
    /\ closedSocks = {}
    /\ tried = <<>>
    /\ IdlePoll /\ IdleExtra

\* IO._connect, lines 433-434
ConnectBegin ==
    /\ ioPc = "start"
    /\ state' = "OPENING"
    /\ sock' = 0
    /\ ioPc' = "resolve"
    /\ UNCHANGED <<rvars, events, exceptions, lvars, stopPc, candidates, idx,
                   socket, closedSocks, tried, pollLog, xvars>>

\* IO._get_addr_info
ConnectResolve ==
    /\ ioPc = "resolve"
    /\ \E res \in AddrInfos :
          /\ candidates' = res
          /\ idx' = 1
          /\ ioPc' = IF res = <<>> THEN "check" ELSE "connect"
    /\ UNCHANGED <<rvars, svars, lvars, stopPc, sock, socket, closedSocks,
                   tried, pollLog, xvars>>

\* IO._connect, lines 435-444: one candidate
ConnectAttempt ==
    /\ ioPc = "connect"
    /\ LET r == IO_connect_attempt(candidates, idx)
       IN /\ sock' = r.sock
          /\ tried' = Append(tried, idx)
          /\ IF r.break \/ idx = Len(candidates)
             THEN ioPc' = "check" /\ idx' = idx
             ELSE ioPc' = "connect" /\ idx' = idx + 1
    /\ UNCHANGED <<rvars, svars, lvars, stopPc, candidates, socket,
                   closedSocks, pollLog, xvars>>

\* IO._connect, lines 446-449 and 453-454
ConnectCheck ==
    /\ ioPc = "check"
    /\ IF sock = 0
       THEN /\ exceptions' = Append(exceptions, "ConnectionException")
            /\ ioPc' = "raise_event"
            /\ UNCHANGED socket
       ELSE /\ socket' = sock
            /\ ioPc' = "opened_event"
            /\ UNCHANGED exceptions
    /\ UNCHANGED <<rvars, events, state, lvars, stopPc, candidates, idx, sock,
                   closedSocks, tried, pollLog, xvars>>

\* IO._connect, lines 450-451
ConnectRaised ==
    /\ ioPc = "raise_event"
    /\ events' = events \cup {"EXCEPTION_RAISED"}
    /\ ioPc' = "connected"
    /\ UNCHANGED <<rvars, exceptions, state, lvars, stopPc, candidates, idx,
                   sock, socket, closedSocks, tried, pollLog, xvars>>

\* IO._connect, line 455
ConnectOpened ==
    /\ ioPc = "opened_event"
    /\ events' = events \cup {"SOCKET_OPENED"}
    /\ ioPc' = "set_open"
    /\ UNCHANGED <<rvars, exceptions, state, lvars, stopPc, candidates, idx,
                   sock, socket, closedSocks, tried, pollLog, xvars>>

\* IO._connect, line 456
ConnectOpen ==
    /\ ioPc = "set_open"
    /\ state' = "OPEN"
    /\ ioPc' = "connected"
    /\ UNCHANGED <<rvars, events, exceptions, lvars, stopPc, candidates, idx,
                   sock, socket, closedSocks, tried, pollLog, xvars>>

\* IO.run, lines 329-347: return without a socket; getsockname raises
\* socket.error on a socket that was closed; else the IOLoop is constructed.
RunAfterConnect ==
    /\ ioPc = "connected"
    /\ IF socket = 0
       THEN ioPc' = "returned" /\ UNCHANGED raised
       ELSE IF socket \in closedSocks
            THEN /\ ioPc' = "crashed"
                 /\ raised' = "socket.error in getsockname"
            ELSE ioPc' = "loop" /\ UNCHANGED raised
    /\ UNCHANGED <<channels, buffer, inbound, handled, dispatched, lock,
                   wire, pos, received, svars, lvars, stopPc, candidates,
                   idx, sock, socket, closedSocks, tried, pollLog, xvars>>

\* IO.stop -> IO._close, line 414
CloseBegin ==
    /\ stopPc = "idle"
    /\ state' = "CLOSING"
    /\ stopPc' = "close_socket"
    /\ UNCHANGED <<rvars, events, exceptions, lvars, ioPc, candidates, idx,
                   sock, socket, closedSocks, tried, pollLog, xvars>>

\* IO._close, lines 415-416
CloseSocket ==
    /\ stopPc = "close_socket"
    /\ closedSocks' = IF socket # 0 THEN closedSocks \cup {socket}
                      ELSE closedSocks
    /\ stopPc' = "clear_opened"
    /\ UNCHANGED <<rvars, svars, lvars, ioPc, candidates, idx, sock, socket,
                   tried, pollLog, xvars>>

\* IO._close, line 417
CloseClearOpened ==
    /\ stopPc = "clear_opened"
    /\ events' = events \ {"SOCKET_OPENED"}
    /\ stopPc' = "set_closed"
    /\ UNCHANGED <<rvars, exceptions, state, lvars, ioPc, candidates, idx,
                   sock, socket, closedSocks, tried, pollLog, xvars>>

\* IO._close, line 418
CloseSetClosed ==
    /\ stopPc = "set_closed"
    /\ events' = events \cup {"SOCKET_CLOSED"}
    /\ stopPc' = "state_closed"
    /\ UNCHANGED <<rvars, exceptions, state, lvars, ioPc, candidates, idx,
                   sock, socket, closedSocks, tried, pollLog, xvars>>

\* IO._close, line 419
CloseStateClosed ==
    /\ stopPc = "state_closed"
    /\ state' = "CLOSED"
    /\ stopPc' = "done"
    /\ UNCHANGED <<rvars, events, exceptions, lvars, ioPc, candidates, idx,
                   sock, socket, closedSocks, tried, pollLog, xvars>>

NextConn ==
    \/ ConnectBegin
    \/ ConnectResolve
    \/ ConnectAttempt
    \/ ConnectCheck
    \/ ConnectRaised
    \/ ConnectOpened
    \/ ConnectOpen
    \/ RunAfterConnect
    \/ CloseBegin
    \/ CloseSocket
    \/ CloseClearOpened
    \/ CloseSetClosed
    \/ CloseStateClosed

SpecConn == InitConn /\ [][NextConn]_vars

---------------------------------------------------------------------------
(* SpecRun: the whole of IO.run, from the connect to the return of the
   event loop, with the owner of the IO object registering channels and
   calling IO.stop from its own thread at any time.  The peer sends
   nothing and no producer puts a pair. *)

InitRun == InitConn

\* IO.run, lines 343-347: the IOLoop is constructed on the connected socket
LoopConstruct ==
    /\ ioPc = "loop"
    /\ loopPc = "none"
    /\ \E b \in Backends : poller' = NewPoller(b)
    /\ running' = FALSE
    /\ write_buffer' = <<>>
    /\ loopPc' = "start"
    /\ UNCHANGED <<rvars, svars, write_queue, wakeup, other_data,
                   stopRaised, sent, enqueued, cvars, pollLog, xvars>>

NextRun ==
    \/ NextConn
    \/ AddChannel
    \/ LoopConstruct
    \/ LoopStart
    \/ IterDrain
    \/ IterPoll
    \/ RunFinish

SpecRun == InitRun /\ [][NextRun]_vars

---------------------------------------------------------------------------
(* SpecPoller: poll(write_wanted) called on a poller of each backend, with
   any readiness of the two descriptors. *)

InitPoller ==
    /\ IdleRead
    /\ IdleShared
    /\ running = FALSE
    /\ write_queue = <<>>
    /\ write_buffer = <<>>
    /\ poller \in {NewPoller(b) : b \in Backends}
    /\ wakeup = FALSE
    /\ loopPc = "none"
    /\ other_data = <<>>
    /\ stopRaised = "none"
    /\ sent = <<>>
    /\ enqueued = <<>>
    /\ IdleConn
    /\ pollLog = <<>>
    /\ IdleExtra

\* poll(write_wanted)
PollCall ==
    /\ Len(pollLog) < MaxPollCalls
    /\ \E write_wanted \in BOOLEAN, pending \in BOOLEAN :
          LET polled == Poller_poll(poller, write_wanted)
          IN /\ poller' = polled.poller
             /\ \E res \in PollResults(polled.watch_write, pending) :
                   pollLog' = Append(pollLog,
                                     [write_wanted |-> write_wanted,
                                      watch_write |-> polled.watch_write,
                                      result |-> res])
    /\ UNCHANGED <<rvars, svars, running, write_queue, write_buffer, wakeup,
                   loopPc, other_data, stopRaised, sent, enqueued, cvars,
                   xvars>>

NextPoller == PollCall

SpecPoller == InitPoller /\ [][NextPoller]_vars

---------------------------------------------------------------------------
(* SpecMsg: a Message (src/rmqid/message.py) and the methods that answer a
   delivery.  A frame is its name and its delivery tag; the message state
   is [method, written, msgRaised]. *)

\* Message.method of a message that came with a delivery: the
\* Basic.Deliver or Basic.GetOk frame, an object that is true.
Received(tag) == [received |-> TRUE, delivery_tag |-> tag]

Tags == 0..MaxTag

\* channel.write_frame(frame)
Channel_write_frame(m, name, tag) ==
    [m EXCEPT !.written = Append(@, [name |-> name, delivery_tag |-> tag]),
              !.msgRaised = "none"]

\* Message.ack()
Message_ack(m) ==
    IF ~m.method.received
    THEN [m EXCEPT !.msgRaised = "ActionException"]
    ELSE Channel_write_frame(m, "Basic.Ack", m.method.delivery_tag)

\* Message.nack(): the frame is built with specification.Basic.Ack
Message_nack(m) ==
    IF ~m.method.received
    THEN [m EXCEPT !.msgRaised = "ActionException"]
    ELSE Channel_write_frame(m, "Basic.Ack", m.method.delivery_tag)

\* Mutant of Message.reject: the test of self.method is missing.
Message_reject_unguarded(m) ==
    Channel_write_frame(m, "Basic.Reject", m.method.delivery_tag)

\* Message.reject()
Message_reject(m) ==
    IF ~m.method.received
    THEN [m EXCEPT !.msgRaised = "ActionException"]
    ELSE Channel_write_frame(m, "Basic.Reject", m.method.delivery_tag)

CurrentMessage ==
    [method |-> method, written |-> written, msgRaised |-> msgRaised]

SetMessage(m) ==
    /\ written' = m.written
    /\ msgRaised' = m.msgRaised
    /\ UNCHANGED method

InitMsg ==
    /\ IdleRead /\ IdleShared /\ IdleLoop /\ IdleConn /\ IdlePoll
    /\ IdleTrace /\ IdleProducers
    /\ method \in {NoMethod} \cup {Received(t) : t \in Tags}
    /\ written = <<>>
    /\ calls = <<>>
    /\ msgRaised = "none"

MsgFrame == <<rvars, svars, lvars, cvars, pollLog, ops, producer>>

Ack ==
    /\ Len(calls) < MaxCalls
    /\ SetMessage(Message_ack(CurrentMessage))
    /\ calls' = Append(calls, "ack")
    /\ UNCHANGED MsgFrame

Nack ==
    /\ Len(calls) < MaxCalls
    /\ SetMessage(Message_nack(CurrentMessage))
    /\ calls' = Append(calls, "nack")
    /\ UNCHANGED MsgFrame

Reject ==
    /\ Len(calls) < MaxCalls
    /\ SetMessage(Message_reject(CurrentMessage))
    /\ calls' = Append(calls, "reject")
    /\ UNCHANGED MsgFrame

NextMsg == Ack \/ Nack \/ Reject

SpecMsg == InitMsg /\ [][NextMsg]_vars

---------------------------------------------------------------------------
(* SpecPub: Message.publish called on a message with a body of any length
   up to MaxBody, on a channel with a maximum frame size of 1 and more.
   A frame written is [name, exchange, body_size, value]; calls keeps the
   arguments of each call. *)

\* The bodies: the i-th byte is i, so that a byte out of place shows.
Bodies == {[i \in 1..n |-> i] : n \in 0..MaxBody}

FrameSizes == 1..MaxFrameSize

\* The exchange argument: a name, or an AMQPClass with that name.
ExchangeArgs ==
    {[is_class |-> FALSE, name |-> "x"], [is_class |-> TRUE, name |-> "x"]}

PubFrame(name, exchange, body_size, value) ==
    [name |-> name, exchange |-> exchange, body_size |-> body_size,
     value |-> value]

\* channel.write_frame(frame) with a frame of publish
Channel_write(m, frame) ==
    [m EXCEPT !.written = Append(@, frame), !.msgRaised = "none"]

\* int(math.ceil(a / float(b))) for b > 0 (the division is exact in
\* floating point for lengths below 2^53)
CeilDiv(a, b) == IF a % b = 0 THEN a \div b ELSE (a \div b) + 1

\* body[start:end] of Python, 0 <= start <= end <= len(body)
Slice(body, start, end) == SubSeq(body, start + 1, end)

\* Message.publish, lines 123-128: the loop over the pieces from offset
RECURSIVE Message_publish_pieces(_, _, _, _, _)
Message_publish_pieces(m, body, size, offset, pieces) ==
    IF offset >= pieces THEN m
    ELSE LET start == size * offset
             e == start + size
             end == IF e > Len(body) THEN Len(body) ELSE e
         IN Message_publish_pieces(
                Channel_write(m, PubFrame("ContentBody", "", 0,
                                          Slice(body, start, end))),
                body, size, offset + 1, pieces)

\* Mutant of Message.publish: the number of pieces is rounded down.
Message_publish_rounds_down(m, exchange, body, size) ==
    LET name == exchange.name
        m1 == Channel_write(m, PubFrame("Basic.Publish", name, 0, <<>>))
        m2 == Channel_write(m1, PubFrame("ContentHeader", "", Len(body),
                                         <<>>))
    IN Message_publish_pieces(m2, body, size, 0, Len(body) \div size)

\* Message.publish(exchange), maximum_frame_size of the channel being size
Message_publish(m, exchange, body, size) ==
    LET name == exchange.name     \* lines 113-114: the name either way
        m1 == Channel_write(m, PubFrame("Basic.Publish", name, 0, <<>>))
        m2 == Channel_write(m1, PubFrame("ContentHeader", "", Len(body),
                                         <<>>))
    IN Message_publish_pieces(m2, body, size, 0, CeilDiv(Len(body), size))

InitPub ==
    /\ IdleRead /\ IdleShared /\ IdleLoop /\ IdleConn /\ IdlePoll
    /\ IdleExtra

Publish ==
    /\ Len(calls) < MaxPublishes
    /\ \E exchange \in ExchangeArgs, body \in Bodies, size \in FrameSizes :
          /\ SetMessage(Message_publish(CurrentMessage, exchange, body,
                                        size))
          /\ calls' = Append(calls, [call |-> "publish", body |-> body,
                                     exchange |-> exchange,
                                     maximum_frame_size |-> size])
    /\ UNCHANGED MsgFrame

NextPub == Publish

SpecPub == InitPub /\ [][NextPub]_vars

---------------------------------------------------------------------------
(* Reference definitions the properties are stated with. *)

\* The bytes of a sequence of (channel_id, frame) pairs on the wire.
RECURSIVE WireOf(_)
WireOf(pairs) ==
    IF pairs = <<>> THEN <<>>
    ELSE marshal(Head(pairs)[2], Head(pairs)[1]) \o WireOf(Tail(pairs))

\* The complete frames at the front of a byte stream, as (channel_id,
\* frame) pairs.
RECURSIVE FramesOf(_)
FramesOf(bytes) ==
    LET u == unmarshal(bytes)
    IN IF ~u.ok THEN <<>>
       ELSE <<<<u.channel_id, u.frame>>>>
            \o FramesOf(Drop(bytes, u.byte_count))

\* The dispatch each frame is due: channel 0 to the handler, any other
\* channel to its inbound queue.
DispatchesDue(frames) ==
    [i \in 1..Len(frames) |->
        [kind |-> IF frames[i][1] = 0 THEN "on_frame" ELSE "put",
         channel_id |-> frames[i][1],
         frame |-> frames[i][2]]]

RECURSIVE SumLen(_, _)
SumLen(f, S) ==
    IF S = {} THEN 0
    ELSE LET e == CHOOSE x \in S : TRUE
         IN Len(f[e]) + SumLen(f, S \ {e})

IsOnFrame(d) == d.kind = "on_frame"

IsPut(d) == d.kind = "put"

---------------------------------------------------------------------------
(* C1 - write path (SpecLoop) *)

\* The bytes the socket accepted are a prefix of the marshalled frames in
\* enqueue order; while the loop runs, accepted bytes, write buffer and
\* outbound queue together are exactly those bytes.
C1_BytesInOrder ==
    /\ IsPrefix(sent, WireOf(enqueued))
    /\ (running \/ loopPc = "start") =>
          sent \o Flatten(write_buffer) \o WireOf(write_queue)
             = WireOf(enqueued)

\* A step in which the socket accepts k bytes takes them from the front
\* chunk and leaves its remaining n-k bytes at the front; a send attempt
\* that accepts nothing and is not fatal leaves the write buffer as it was.
C1_SendStep ==
    /\ sent' # sent =>
          /\ write_buffer # <<>>
          /\ LET chunk == Head(write_buffer)
                 k == Len(sent') - Len(sent)
             IN /\ k <= Len(chunk)
                /\ sent' = sent \o Take(chunk, k)
                /\ write_buffer' = IF k < Len(chunk)
                                   THEN <<Drop(chunk, k)>> \o Tail(write_buffer)
                                   ELSE Tail(write_buffer)
    /\ (loopPc = "poll" /\ sent' = sent /\ running') =>
          write_buffer' = write_buffer

\* C1: for every sequence of pairs put on the outbound queue and every
\* pattern of send outcomes, the bytes accepted by the socket are always a
\* prefix of the concatenation of marshal(frame, channel_id) in enqueue
\* order, no byte is lost, duplicated or reordered, and after a send of k
\* of the n bytes of the front chunk the front entry is the remaining n-k.
C1_WriteOrder == [](C1_BytesInOrder) /\ [][C1_SendStep]_vars

\* Two frames were enqueued and the first was sent in part: the front of
\* the write buffer is the unsent rest of the first frame.
C1_Witness ==
    /\ Len(enqueued) = 2
    /\ Len(write_buffer) = 2
    /\ sent # <<>>
    /\ Len(sent) < Len(WireOf(<<enqueued[1]>>))
    /\ write_buffer[1] = Drop(WireOf(<<enqueued[1]>>), Len(sent))

---------------------------------------------------------------------------
(* C2, C3 - read path (SpecRead) *)

\* on_read called once, on a fresh IO object with the present registry,
\* with all the bytes received so far.
OnReadWhole ==
    IO_on_read([buffer |-> <<>>, inbound |-> [e \in Entries |-> <<>>],
                handled |-> <<>>, dispatched |-> <<>>, lock |-> 0,
                raised |-> "none"],
               channels, received)

\* C2: however the byte stream is split into the chunks passed to
\* successive on_read calls, the sequence of dispatches and the read buffer
\* are those of one on_read call with the whole stream (all frames being
\* on registered channels, so that no call raised).
C2_ChunkingInvisible ==
    raised = "none" =>
        /\ OnReadWhole.raised = "none"
        /\ OnReadWhole.dispatched = dispatched
        /\ OnReadWhole.buffer = buffer

\* A frame was dispatched and the next frame has arrived in part: a chunk
\* ended in the middle of a frame.
C2_Witness ==
    /\ raised = "none"
    /\ Len(dispatched) = 1
    /\ buffer # <<>>
    /\ Len(received) > Len(buffer)

\* C3: every frame decoded on a registered channel is dispatched exactly
\* once, in stream order: channel 0 to the channel-0 consumer's on_frame,
\* any other channel to an inbound queue.
C3_ExactlyOnceInOrder ==
    raised = "none" =>
        LET due == DispatchesDue(FramesOf(received))
        IN /\ dispatched = due
           /\ [i \in 1..Len(handled) |-> handled[i].frame]
                 = [i \in 1..Len(SelectSeq(due, IsOnFrame)) |->
                       SelectSeq(due, IsOnFrame)[i].frame]
           /\ SumLen(inbound, Entries) = Len(SelectSeq(due, IsPut))
           /\ lock = 0

\* Frame A on channel 0 then frame B on channel 1: on_frame(A) came before
\* the put of B on channel 1's queue.
C3_Witness ==
    /\ raised = "none"
    /\ Len(dispatched) = 2
    /\ dispatched[1].kind = "on_frame" /\ dispatched[1].channel_id = 0
    /\ dispatched[2].kind = "put" /\ dispatched[2].channel_id = 1
    /\ 1 \in DOMAIN channels
    /\ inbound[channels[1]] = <<dispatched[2].frame>>
    /\ handled = <<[consumer |-> channels[0], frame |-> dispatched[1].frame]>>

---------------------------------------------------------------------------
(* C4, C5, C6 - event loop (SpecLoop) *)

\* C4: once a poll has returned a non-empty errored set and IO.run has
\* returned, the lifecycle state is CLOSED and exactly one fault is on the
\* Fault Sink.
C4_PollErrorClosesConnection ==
    ("SOCKET_CLOSE" \in events /\ loopPc = "returned") =>
        /\ state = "CLOSED"
        /\ Len(exceptions) = 1

\* on_read has decoded a frame whose channel id is neither 0 nor registered.
UnknownChannelDecoded ==
    \E i \in DOMAIN FramesOf(received) :
        /\ FramesOf(received)[i][1] # 0
        /\ FramesOf(received)[i][1] \notin DOMAIN channels

\* C5: a decoded frame on an unknown channel id puts a fault on the Fault
\* Sink and sets exception-raised, and no exception escapes the event-loop
\* thread.
C5_UnknownChannelSurfaced ==
    UnknownChannelDecoded =>
        /\ exceptions # <<>>
        /\ "EXCEPTION_RAISED" \in events
        /\ raised = "none"
        /\ loopPc # "crashed"

\* C6: after IOLoop.stop() was called by a thread other than the one that
\* runs the loop, the running flag the loop thread observes is false and
\* stop has raised nothing.
C6_StopFromOtherThread ==
    "running" \in DOMAIN other_data =>
        /\ ~running
        /\ stopRaised = "none"

---------------------------------------------------------------------------
(* C7, C8, C9 - connection lifecycle (SpecConn) *)

LegalSteps ==
    {<<"OPENING", "OPEN">>, <<"OPEN", "CLOSING">>, <<"CLOSING", "CLOSED">>}

\* C7: over every interleaving of IO.run and IO.stop the lifecycle state
\* only takes the steps OPENING->OPEN, OPEN->CLOSING, CLOSING->CLOSED (the
\* first step, out of the unset state, is left free).
C7_LegalStepsOnly ==
    [][(state' # state /\ state # "None") =>
          <<state, state'>> \in LegalSteps]_vars

\* _connect has returned and no candidate address accepted the connection.
ConnectFailed ==
    /\ ioPc \in {"connected", "returned", "loop", "crashed"}
    /\ \A i \in DOMAIN candidates : ~candidates[i]

HasSuccess == \E i \in DOMAIN candidates : candidates[i]

FirstSuccess ==
    CHOOSE i \in DOMAIN candidates :
        candidates[i] /\ \A j \in 1..(i - 1) : ~candidates[j]

\* C9: candidates are tried in resolution order and none after the first
\* that succeeds; with a success _connect ends owning the socket of the
\* first successful address, no fault put and exception-raised not set,
\* and (IO.stop not having been called) in state OPEN with socket-opened
\* set.
C9_FirstSuccessWins ==
    /\ tried = [i \in 1..Len(tried) |-> i]
    /\ HasSuccess => Len(tried) <= FirstSuccess
    /\ (HasSuccess /\ ioPc \in {"connected", "loop", "crashed"}) =>
          /\ socket = FirstSuccess
          /\ Len(tried) = FirstSuccess
          /\ exceptions = <<>>
          /\ "EXCEPTION_RAISED" \notin events
          /\ stopPc = "idle" =>
                /\ state = "OPEN"
                /\ "SOCKET_OPENED" \in events
                /\ ioPc # "crashed"

\* The first candidate failed, the second succeeded: OPEN on the second.
C9_Witness ==
    /\ ioPc = "loop"
    /\ candidates = <<FALSE, TRUE>>
    /\ tried = <<1, 2>>
    /\ socket = 2
    /\ state = "OPEN"
    /\ exceptions = <<>>

---------------------------------------------------------------------------
(* C10 - pollers (SpecPoller) *)

\* C10: in every poll call the data socket is watched for write-readiness
\* if and only if write_wanted is true, and a call with write_wanted false
\* never reports it writable, from the first call on.
C10_WriteWatchedIffWanted ==
    \A i \in DOMAIN pollLog :
        /\ pollLog[i].watch_write = pollLog[i].write_wanted
        /\ ~pollLog[i].write_wanted => ~pollLog[i].result.w

---------------------------------------------------------------------------
(* C11 - channel registry (SpecRead) *)

\* C11: add_channel on an id that is already registered leaves the entry
\* of that id as it was, so every id keeps the entry of its first
\* registration.
C11_FirstRegistrationKept ==
    [][\A c \in DOMAIN channels :
          c \in DOMAIN channels' /\ channels'[c] = channels[c]]_vars

---------------------------------------------------------------------------
(* C12, C13 - transient and fatal errors (SpecIter) *)

\* The error numbers of the resource-temporarily-unavailable condition
\* (EAGAIN, EWOULDBLOCK): 35 on BSD and macOS, 11 on Linux.
TempUnavailable == {35, 11}

\* A send that failed with a timeout or with resource temporarily
\* unavailable.
TransientSend(o) ==
    /\ o.op = "send"
    /\ \/ o.kind = "timeout"
       \/ o.kind = "error" /\ o.errno \in TempUnavailable

RecvTimeout(o) == o.op = "recv" /\ o.kind = "timeout"

\* A recv or a send that failed with a socket error that is neither.
FatalError(o) ==
    /\ o.op \in {"recv", "send"}
    /\ o.kind = "error"
    /\ o.op = "send" => o.errno \notin TempUnavailable

\* The step is a call of _poll: its log is in ops'.
PollCalled == loopPc = "poll" /\ ops' # ops

\* C12: a call of _poll in which the send failed with a timeout or with
\* resource temporarily unavailable (under either platform's error number)
\* leaves the write buffer as it was, the running flag true, the Fault Sink
\* and the signals as they were and the error callback not called; a recv
\* that timed out is not followed by the error callback and leaves running
\* true.
C12_TransientNotFatal ==
    [][PollCalled =>
          \A i \in DOMAIN ops' :
             /\ TransientSend(ops'[i]) =>
                   /\ write_buffer' = write_buffer
                   /\ running'
                   /\ exceptions' = exceptions
                   /\ events' = events
                   /\ \A j \in DOMAIN ops' : ops'[j].op # "error_callback"
             /\ RecvTimeout(ops'[i]) =>
                   /\ i < Len(ops') => ops'[i + 1].op = "send"
                   /\ i = Len(ops') => running' /\ exceptions' = exceptions]_vars

\* C13: a call of _poll in which a recv or a send failed with a socket
\* error that is neither a timeout nor resource temporarily unavailable
\* clears the running flag, calls the error callback exactly once, which
\* puts exactly one fault and sets exception-raised, attempts no recv or
\* send after the failed one, and IOLoop.run returns without another poll.
C13_FatalErrorStopsLoop ==
    [][PollCalled =>
          \A i \in DOMAIN ops' :
             FatalError(ops'[i]) =>
                /\ ~running'
                /\ Cardinality({j \in DOMAIN ops' :
                                  ops'[j].op = "error_callback"}) = 1
                /\ Len(exceptions') = Len(exceptions) + 1
                /\ "EXCEPTION_RAISED" \in events'
                /\ \A j \in DOMAIN ops' :
                      j > i => ops'[j].op \notin {"recv", "send"}
                /\ loopPc' = "exited"
                /\ raised' = "none"]_vars

---------------------------------------------------------------------------
(* C14 - extraction attempts that yield no frame (SpecIter) *)

\* The bytes left of a byte string after the complete frames at its front.
RestOf(bytes) == Drop(bytes, Len(WireOf(FramesOf(bytes))))

\* C14: in a call of _poll whose recv returned data (on_read not raising),
\* the read buffer afterwards is the old buffer and the data less the
\* complete frames at their front, and one dispatch was made per such
\* frame: the attempt that yields no frame (nothing left, an incomplete
\* frame, malformed bytes) dispatches nothing and leaves the bytes it was
\* made on in the buffer.  When no frame at all could be taken the buffer
\* is the old buffer with the data appended, nothing is dispatched, the
\* error callback is not called for it, no fault is put and (no send
\* failing after it) the loop keeps running.
C14_NoFrameLeavesBuffer ==
    [][PollCalled =>
          \A i \in DOMAIN ops' :
             (ops'[i].op = "recv" /\ ops'[i].kind = "data"
                /\ raised' = "none") =>
                LET bytes == buffer \o ops'[i].data
                IN /\ buffer' = RestOf(bytes)
                   /\ Len(dispatched')
                         = Len(dispatched) + Len(FramesOf(bytes))
                   /\ FramesOf(bytes) = <<>> =>
                         /\ buffer' = bytes
                         /\ dispatched' = dispatched
                         /\ handled' = handled
                         /\ inbound' = inbound
                         /\ i < Len(ops') => ops'[i + 1].op = "send"
                         /\ i = Len(ops') =>
                               /\ running'
                               /\ exceptions' = exceptions
                               /\ loopPc' = "drain"]_vars

\* Malformed bytes and, after them, a whole frame have been received: all
\* of them are in the read buffer, nothing was dispatched, the loop runs.
C14_Witness ==
    /\ buffer = Malformed \o marshal(<<1>>, 0)
    /\ received = buffer
    /\ dispatched = <<>>
    /\ running
    /\ loopPc = "drain"
    /\ exceptions = <<>>
    /\ \E i \in DOMAIN ops : ops[i].op = "recv" /\ ops[i].kind = "data"

---------------------------------------------------------------------------
(* C15, C20 - faults and the exception-raised signal (SpecRun) *)

\* IO.run has returned.
RunReturned == ioPc = "returned" \/ loopPc = "returned"

\* C15: whenever exception-raised is set a fault has been put; a fault that
\* has been put has its signal set, but for the moment between the two
\* statements of _connect; in on_error the put comes right before the set;
\* and once IO.run has returned with a fault on the Fault Sink the signal
\* is set.
C15_FaultBeforeSignal ==
    /\ "EXCEPTION_RAISED" \in events => exceptions # <<>>
    /\ (exceptions # <<>> /\ ioPc # "raise_event") =>
          "EXCEPTION_RAISED" \in events
    /\ \A i \in DOMAIN ops :
          /\ ops[i].op = "set" => (i > 1 /\ ops[i - 1].op = "put")
          /\ ops[i].op = "put" =>
                (i < Len(ops) /\ ops[i + 1].op = "set"
                   /\ exceptions[Len(exceptions)] = ops[i].kind)
    /\ (RunReturned /\ exceptions # <<>>) => "EXCEPTION_RAISED" \in events

\* The event loop ended on a socket error, its fault put by on_error, and
\* IO.run has returned.
C15_Witness ==
    /\ loopPc = "returned"
    /\ Len(exceptions) = 1
    /\ "EXCEPTION_RAISED" \in events
    /\ \E i \in DOMAIN ops : ops[i].op = "put"

\* C20: every call of the error callback puts one fault on the Fault Sink,
\* a ConnectionResetException if the channel-0 consumer reports itself
\* open and a ConnectionException otherwise, whatever the registry holds,
\* also when channel 0 is not registered yet.
C20_FaultClassified ==
    [][PollCalled =>
          \A i \in DOMAIN ops' :
             ops'[i].op = "error_callback" =>
                /\ raised' = "none"
                /\ exceptions' =
                      Append(exceptions,
                             IF ops'[i].kind = "open"
                             THEN "ConnectionResetException"
                             ELSE "ConnectionException")]_vars

---------------------------------------------------------------------------
(* C16, C17 - answering a delivery (SpecMsg) *)

\* C16: nack() on a received message writes exactly one frame, and it is
\* a Basic.Nack frame with the delivery tag of the message.
C16_NackWritesNack ==
    [][(calls' = Append(calls, "nack") /\ method.received) =>
          written' = Append(written,
                            [name |-> "Basic.Nack",
                             delivery_tag |-> method.delivery_tag])]_vars

\* C17: on a message that was not received each of ack(), nack() and
\* reject() raises ActionException and writes no frame; on a received
\* message each raises nothing and writes exactly one frame, which carries
\* the delivery tag of the message.
C17_AnswerNeedsDelivery ==
    [][calls' # calls =>
          IF ~method.received
          THEN /\ msgRaised' = "ActionException"
               /\ written' = written
          ELSE /\ msgRaised' = "none"
               /\ Len(written') = Len(written) + 1
               /\ SubSeq(written', 1, Len(written)) = written
               /\ written'[Len(written')].delivery_tag
                     = method.delivery_tag]_vars

\* ack, nack and reject were called on a message received with delivery
\* tag 1: three frames, each with tag 1.
C17_Witness ==
    /\ method = Received(1)
    /\ calls = <<"ack", "nack", "reject">>
    /\ Len(written) = 3
    /\ \A i \in 1..3 : written[i].delivery_tag = 1
    /\ msgRaised = "none"

---------------------------------------------------------------------------
(* C18 - the order of the steps of _poll (SpecIter) *)

\* The places in a log where call op was made.
Places(log, op) == {i \in DOMAIN log : log[i].op = op}

\* The drain: every pending entry leaves the outbound queue and its
\* marshalled form goes to the back of the write buffer, in queue order.
C18_DrainStep ==
    (loopPc = "drain" /\ loopPc' # "drain") =>
        /\ write_queue' = <<>>
        /\ write_buffer' =
              write_buffer \o [i \in 1..Len(write_queue) |->
                                 marshal(write_queue[i][2],
                                         write_queue[i][1])]
        /\ Len(ops') = 1
        /\ ops'[1].op = "drain"

\* After the drain one poll, asked for write-readiness exactly when the
\* write buffer is not empty; then at most one recv, only if the data
\* socket was readable; then at most one send, only if the poll gave a
\* writable descriptor and the write buffer is not empty, of the chunk at
\* the front of the write buffer.
C18_PollStep ==
    PollCalled =>
        /\ Len(ops) = 1
        /\ ops[1].op = "drain"
        /\ SubSeq(ops', 1, 1) = ops
        /\ Places(ops', "poll") = {2}
        /\ ops'[2].kind = IF write_buffer # <<>> THEN "write wanted"
                          ELSE "read only"
        /\ Places(ops', "recv") \subseteq {3}
        /\ Places(ops', "recv") # {} => ops'[2].data[1] = 1
        /\ Cardinality(Places(ops', "send")) <= 1
        /\ \A i \in Places(ops', "send") :
              /\ i = Len(ops') \/ ops'[i + 1].op = "error_callback"
              /\ ops'[2].data[3] = 1
              /\ write_buffer # <<>>
              /\ ops'[i].data = Head(write_buffer)

\* C18: each iteration of _poll first drains the outbound queue
\* completely into the write buffer, then polls with write interest
\* requested exactly when the write buffer is not empty, then makes at
\* most one recv and after it at most one send, of the front chunk.
C18_StepsInOrder == [][C18_DrainStep /\ C18_PollStep]_vars

\* An iteration that drained a pair, polled with write wanted, received
\* data and then sent the front chunk.
C18_Witness ==
    /\ Len(ops) = 4
    /\ ops[1].op = "drain" /\ ops[1].n = 1
    /\ ops[2].op = "poll" /\ ops[2].kind = "write wanted"
    /\ ops[3].op = "recv" /\ ops[3].kind = "data" /\ ops[3].data # <<>>
    /\ ops[4].op = "send" /\ ops[4].kind = "sent"

---------------------------------------------------------------------------
(* SpecWake: producer threads against the event loop.  A producer puts a
   pair on the outbound queue and then calls IO._trigger_write; the loop
   runs its iterations, and the poll call is taken in two steps, its
   return and what _poll does with the lists it returned, so that a
   producer can act between them.  The poll call blocks: it returns only
   with a descriptor ready (the timeout of 3600 seconds is never reached),
   the peer is silent, and the data socket stays writable and accepts at
   least one byte of every send. *)

WakeEnv ==
    [blocking |-> TRUE, writable |-> TRUE, errors |-> FALSE,
     silent |-> TRUE, eof |-> FALSE, recvKinds |-> {"data"},
     sendKinds |-> {"sent"}, minSent |-> 1]

WakeInputs == {[channels |-> (0 :> 1), wire |-> <<>>]}

InitWake == LoopInit(WakeInputs)

\* The pair the producers put: what is in a pair has no part in the waking
\* of the loop.
WakePairs == {<<1, <<1, 2>>>>}

\* The producer thread died of an exception.
Died == -1

\* What send(b'0') on the wakeup channel can do: put a byte there, or fail
\* with socket.error; while the loop runs its end of the channel is open,
\* and the send fails only with the channel full.
TriggerOutcomes(pending) ==
    {"sent"} \cup (IF pending THEN {"socket.error"} ELSE {})

\* Mutant of IO._trigger_write: no byte is sent.
IO_trigger_write_sends_nothing(pending, outcome) ==
    [wakeup |-> pending, raised |-> FALSE]

\* IO._trigger_write, lines 587-590
IO_trigger_write(pending, outcome) ==
    CASE outcome = "sent" -> [wakeup |-> TRUE, raised |-> FALSE]
      [] outcome = "socket.error" -> [wakeup |-> pending, raised |-> FALSE]

\* Producer p puts a pair on the outbound queue; producer[p] is the place
\* of the pair in enqueued until p has signalled.
ProducerPut ==
    /\ Len(enqueued) < MaxPuts
    /\ \E p \in Producers, pair \in WakePairs :
          /\ producer[p] = 0
          /\ write_queue' = Append(write_queue, pair)
          /\ enqueued' = Append(enqueued, pair)
          /\ producer' = [producer EXCEPT ![p] = Len(enqueued) + 1]
    /\ UNCHANGED <<rvars, svars, running, write_buffer, poller, wakeup,
                   loopPc, other_data, stopRaised, sent, cvars, pollLog,
                   ops, mvars>>

\* Producer p, having put its pair, calls IO._trigger_write.
ProducerTrigger ==
    /\ \E p \in Producers, outcome \in TriggerOutcomes(wakeup) :
          /\ producer[p] > 0
          /\ LET t == IO_trigger_write(wakeup, outcome)
             IN /\ wakeup' = t.wakeup
                /\ producer' = [producer EXCEPT
                                  ![p] = IF t.raised THEN Died ELSE 0]
    /\ UNCHANGED <<rvars, svars, running, write_queue, write_buffer, poller,
                   loopPc, other_data, stopRaised, sent, enqueued, cvars,
                   pollLog, ops, mvars>>

\* IOLoop._poll, line 221: the poll call returns its lists.
WakePoll ==
    /\ loopPc = "poll"
    /\ LET write_wanted == write_buffer # <<>>
           polled == Poller_poll(poller, write_wanted)
       IN /\ poller' = polled.poller
          /\ \E res \in PollResultsIn(WakeEnv, polled.watch_write, wakeup) :
                ops' = Append(ops, Op("poll",
                                      IF write_wanted THEN "write wanted"
                                      ELSE "read only",
                                      0, 0, Lists(res)))
    /\ loopPc' = "polled"
    /\ UNCHANGED <<rvars, svars, running, write_queue, write_buffer, wakeup,
                   other_data, stopRaised, sent, enqueued, cvars, pollLog,
                   producer, mvars>>

\* The lists the last poll call of the log returned.
Polled ==
    LET lists == ops[Len(ops)].data
    IN [r_fd |-> lists[1] = 1, r_trigger |-> lists[2] = 1,
        w |-> lists[3] = 1, x |-> lists[4] = 1]

\* IOLoop._poll, lines 223-239, and the loop control of IOLoop.run
WakeHandle ==
    /\ loopPc = "polled"
    /\ LET res == Polled
       IN \E rd \in IF res.r_fd /\ ~res.x /\ running
                     THEN RecvOutcomesIn(WakeEnv, wire, pos) ELSE {NoRecv} :
          \E wr \in IF res.w /\ ~res.x /\ running
                     THEN SendOutcomesIn(WakeEnv, write_buffer)
                     ELSE {NoSend} :
             LET s == IOLoop_poll_handle(CurrentLoopState, channels, res,
                                         rd, wr, FALSE)
             IN /\ SetLoopState(s)
                /\ loopPc' = IOLoop_run_next(s)
                /\ ops' = s.ops
    /\ UNCHANGED <<write_queue, enqueued, poller>>
    /\ UNCHANGED LoopFrame

\* The steps of the IO thread.
WakeLoop == LoopStart \/ IterDrain \/ WakePoll \/ WakeHandle

NextWake == ProducerPut \/ ProducerTrigger \/ WakeLoop

\* The IO thread is scheduled: a step of it that stays possible is taken.
SpecWake == InitWake /\ [][NextWake]_vars /\ WF_vars(WakeLoop)

---------------------------------------------------------------------------
(* C19 - no wakeup is lost (SpecWake) *)

\* The pair put k-th has been put and its producer has signalled.
Signalled(k) ==
    /\ k <= Len(enqueued)
    /\ \A p \in Producers : producer[p] # k

\* The pair put k-th is still on the outbound queue.
OnQueue(k) ==
    /\ k <= Len(enqueued)
    /\ k > Len(enqueued) - Len(write_queue)

\* The bytes of the pair put k-th have all been accepted by the socket.
Sent(k) ==
    /\ k <= Len(enqueued)
    /\ Len(sent) >= Len(WireOf(SubSeq(enqueued, 1, k)))
    /\ IsPrefix(WireOf(SubSeq(enqueued, 1, k)), sent)

\* With the loop at its poll call, a signalled pair on the outbound queue
\* has its byte on the wakeup channel: the call returns at once.  A
\* signalled pair that is not sent is on the queue or in the write buffer,
\* and with the loop at its poll call the call has something to return
\* with.  No producer died in _trigger_write.
C19_PollReturns ==
    /\ \A k \in 1..MaxPuts :
          (loopPc = "poll" /\ Signalled(k) /\ OnQueue(k)) => wakeup
    /\ \A k \in 1..MaxPuts :
          (Signalled(k) /\ ~Sent(k)) =>
              /\ OnQueue(k) \/ write_buffer # <<>>
              /\ loopPc = "poll" => ENABLED WakePoll
    /\ \A p \in Producers : producer[p] # Died

\* Some pair has been put and signalled and is not sent yet.
Unsent == \E k \in 1..MaxPuts : Signalled(k) /\ ~Sent(k)

\* C19: no wakeup is lost.  Once a producer has put a pair and called
\* _trigger_write, whatever the loop was doing then, the poll call the
\* loop is in or comes to next returns without its timeout, the pair is
\* marshalled into the write buffer and, the loop running and the socket
\* writable, its bytes are eventually sent: whenever a signalled pair is
\* unsent, there comes a state where every signalled pair is sent (a pair
\* stays signalled, and stays sent).  _trigger_write never raises.
C19_NoLostWakeup ==
    /\ []C19_PollReturns
    /\ Unsent ~> ~Unsent

\* A pair was put and signalled after the drain of an iteration: the loop
\* had nothing to write, and its poll call has returned with the wakeup
\* channel readable while the pair is on the outbound queue.
C19_Witness ==
    /\ loopPc = "polled"
    /\ Signalled(1) /\ OnQueue(1) /\ ~Sent(1)
    /\ Len(ops) = 2
    /\ ops[1].op = "drain" /\ ops[1].n = 0
    /\ ops[2].op = "poll" /\ ops[2].kind = "read only"
    /\ ops[2].data = <<0, 1, 0, 0>>

---------------------------------------------------------------------------
(* C21 - the frames of publish (SpecPub) *)

\* The values of frames, in order.
ValuesOf(frames) == [i \in 1..Len(frames) |-> frames[i].value]

\* n is the least number of pieces of at most size bytes that hold len
\* bytes.
IsCeil(n, len, size) ==
    /\ n * size >= len
    /\ n = 0 \/ (n - 1) * size < len

\* C21: publish writes one Basic.Publish method frame, then one content
\* header whose body_size is the length of the body, then
\* ceil(len(body) / maximum_frame_size) content-body frames, each of at
\* most maximum_frame_size bytes and none empty, whose values put together
\* in the order written are the body; an empty body gives no body frame.
C21_PublishFrames ==
    [][calls' # calls =>
          LET call == calls'[Len(calls')]
              new == SubSeq(written', Len(written) + 1, Len(written'))
              bodies == SubSeq(new, 3, Len(new))
          IN /\ SubSeq(written', 1, Len(written)) = written
             /\ Len(new) >= 2
             /\ new[1].name = "Basic.Publish"
             /\ new[1].exchange = call.exchange.name
             /\ new[2].name = "ContentHeader"
             /\ new[2].body_size = Len(call.body)
             /\ IsCeil(Len(bodies), Len(call.body),
                       call.maximum_frame_size)
             /\ \A i \in 1..Len(bodies) :
                   /\ bodies[i].name = "ContentBody"
                   /\ Len(bodies[i].value) <= call.maximum_frame_size
                   /\ bodies[i].value # <<>>
             /\ Flatten(ValuesOf(bodies)) = call.body
             /\ call.body = <<>> => Len(new) = 2]_vars

\* A body of five bytes was published with a maximum frame size of two:
\* three body frames, the last one short; then an empty body: no body
\* frame.
C21_Witness ==
    /\ Len(calls) = 2
    /\ calls[1].body = <<1, 2, 3, 4, 5>>
    /\ calls[1].maximum_frame_size = 2
    /\ calls[2].body = <<>>
    /\ Len(written) = 7
    /\ ValuesOf(SubSeq(written, 3, 5)) = <<<<1, 2>>, <<3, 4>>, <<5>>>>
    /\ written[6].name = "Basic.Publish"
    /\ written[7].name = "ContentHeader"

---------------------------------------------------------------------------
(* C22 - the channel-0 dispatch lock (SpecRead) *)

\* C22: the lock is held only while the channel-0 frame handler runs.
\* on_read is one step, so no state lies inside the handler: the lock is
\* free in every state, also after an on_read that ended in an exception
\* raised between acquire and release.
C22_LockFreeOutsideHandler == lock = 0

---------------------------------------------------------------------------
(* C23 - the socket signals under run and stop (SpecConn) *)

\* C23: socket-opened and socket-closed are never both set, and
\* socket-opened is set only while IO._socket is a socket that has not
\* been closed.  The states inside _close, between the closing of the
\* socket and the setting of the signals, are left out: the property is
\* asked for only with the stopping thread before or after its call.
C23_OpenedMeansLiveSocket ==
    stopPc \in {"idle", "done"} =>
        /\ ~({"SOCKET_OPENED", "SOCKET_CLOSED"} \subseteq events)
        /\ "SOCKET_OPENED" \in events =>
              (socket # 0 /\ socket \notin closedSocks)

---------------------------------------------------------------------------
(* SpecEof: the event loop with a peer that sends its stream and then
   closes the connection.  The data socket is readable at every poll call;
   recv returns what has arrived of the stream, in chunks of any size, and
   zero bytes once the stream is used up; the poller reports no errored
   descriptor.  Nothing is put on the outbound queue. *)

EofEnv ==
    [blocking |-> TRUE, writable |-> FALSE, errors |-> FALSE,
     silent |-> FALSE, eof |-> TRUE, recvKinds |-> {"data"},
     sendKinds |-> {"sent"}, minSent |-> 1]

\* The streams of IterInputs, and nothing at all from the peer.
EofInputs ==
    IterInputs \cup {[channels |-> (0 :> 1), wire |-> <<>>]}

InitEof == LoopInit(EofInputs)

EofPoll == PollStep(EofEnv, TRUE)

\* The steps of the IO thread.  IOLoop.run is left only by an exception
\* that escapes it: neither running nor SOCKET_CLOSE changes without an
\* error, so the end of IO.run (lines 349-352) is not reached.
NextEof == LoopStart \/ IterDrain \/ EofPoll

\* The IO thread is scheduled: a step of it that stays possible is taken.
SpecEof == InitEof /\ [][NextEof]_vars /\ WF_vars(NextEof)

---------------------------------------------------------------------------
(* C24 - the loop after the peer has closed (SpecEof) *)

\* C24: with the data socket readable for ever, every recv returning zero
\* bytes and no descriptor reported errored, the loop does not go round
\* for ever: a fault comes to be on the Fault Sink, or IOLoop.run is left.
C24_EofEndsLoop ==
    <>(exceptions # <<>> \/ loopPc \in {"exited", "returned", "crashed"})

===========================================================================
